---- MODULE Spec2Model ----
(***************************************************************************)
(* Model of bin/automake.py: the FFMPEG class (parseFunction,              *)
(* parseFilterComplex, _genVideoCmd, _buildVideoCmds, _genFinalCmd,        *)
(* Makefile) and main().                                                   *)
(*                                                                         *)
(* Python values are tagged records [tag, val]:                            *)
(*   PyStr(s)   val is a TLA+ string                                       *)
(*   PyInt(n), PyFloat(s), PyBool(b), PyNone                               *)
(*   PyList(xs) val is a sequence of tagged values                         *)
(*   PyDict(ps) val is a sequence of <<key, tagged value>> pairs in the    *)
(*            dict's insertion (= iteration) order; keys are strings       *)
(* A call returns [err, by, val]: err = "" and the value on a normal       *)
(* return, else the exception's type and the function that raised it.      *)
(***************************************************************************)
EXTENDS Integers, Sequences, FiniteSets, TLC

VARIABLES
  op,        \* which operation the last step applied ("" before any)
  arg,       \* the argument the operation was applied to (as it was before the call)
  out,       \* what the operation returned or raised
  loaded,    \* main / render: the configuration document as loaded (json.load)
  cfg,       \* the in-memory configuration document (self.config), mutated in place
  postDate,  \* FFMPEG.POST_DATE['drawtext']['text'], fixed when the class is defined
  pc,        \* main's position
  err,       \* the exception that aborted main ("" when none)
  makefile,  \* the file 'Makefile': "absent", or [text |-> its contents] once opened
  stdout,    \* lines printed
  buildDir,  \* whether the directory 'build' exists
  mkdirs,    \* number of os.mkdir('build') calls
  renders    \* the results of successive renderings of the same document

vars == <<op, arg, out, loaded, cfg, postDate, pc, err, makefile, stdout, buildDir, mkdirs, renders>>

----------------------------------------------------------------------------
(* Python values *)

PyStr(s) == [tag |-> "str", val |-> s]
PyInt(n) == [tag |-> "int", val |-> n]
PyFloat(s) == [tag |-> "float", val |-> s]
PyBool(b) == [tag |-> "bool", val |-> b]
PyNone == [tag |-> "NoneType", val |-> ""]
PyList(xs) == [tag |-> "list", val |-> xs]
PyDict(ps) == [tag |-> "dict", val |-> ps]

Ok(v) == [err |-> "", by |-> "", val |-> v]
Raise(by, type) == [err |-> type, by |-> by, val |-> ""]

(* isinstance(v, (str, int, float)): bool is a subclass of int *)
IsScalar(v) == v.tag \in {"str", "int", "float", "bool"}

(* k in d *)
HasKey(d, k) == \E i \in 1..Len(d.val) : d.val[i][1] = k

(* d[k], for a key that is present *)
GetItem(d, k) == d.val[CHOOSE i \in 1..Len(d.val) : d.val[i][1] = k][2]

(* d.get(k, default) *)
Get(d, k, default) == IF HasKey(d, k) THEN GetItem(d, k) ELSE default

(* d[k] = v: replaces in place, or appends a new key last *)
SetItem(d, k, v) ==
  IF HasKey(d, k)
  THEN PyDict([i \in 1..Len(d.val) |-> IF d.val[i][1] = k THEN <<k, v>> ELSE d.val[i]])
  ELSE PyDict(Append(d.val, <<k, v>>))

(* del d[k], for a key that is present *)
DelItem(d, k) ==
  LET Keep(p) == p[1] # k IN PyDict(SelectSeq(d.val, Keep))

(* the characters of a string, as Python iterates them *)
Chars(s) == [i \in 1..Len(s) |-> SubSeq(s, i, i)]

(* sep.join of a sequence of TLA+ strings *)
RECURSIVE joinStrings(_, _)
joinStrings(sep, xs) ==
  IF Len(xs) = 0 THEN ""
  ELSE IF Len(xs) = 1 THEN xs[1]
  ELSE xs[1] \o sep \o joinStrings(sep, Tail(xs))

(* str.join(sep, it): it is any Python value. A str iterates as its          *)
(* characters, a list or tuple as its elements (each must be a str), a dict  *)
(* as its keys; anything that is not iterable is a TypeError.                *)
(* `by` is the Python function whose frame makes the call.                   *)
join(by, sep, it) ==
  CASE it.tag = "str" -> Ok(joinStrings(sep, Chars(it.val)))
    [] it.tag \in {"list", "tuple"} ->
         IF \A i \in 1..Len(it.val) : it.val[i].tag = "str"
         THEN Ok(joinStrings(sep, [i \in 1..Len(it.val) |-> it.val[i].val]))
         ELSE Raise(by, "TypeError")
    [] it.tag = "dict" -> Ok(joinStrings(sep, [i \in 1..Len(it.val) |-> it.val[i][1]]))
    [] OTHER -> Raise(by, "TypeError")

----------------------------------------------------------------------------
(* FFMPEG.parseFunction *)

(* mutant of pairArg: the pair joined by the separator of the argument list *)
pairArg_ColonSep(p) == join("parseFunction", ":", [tag |-> "tuple", val |-> <<PyStr(p[1]), p[2]>>])

(* '='.join(arg) for one (key, value) item of the argument mapping *)
pairArg(p) == join("parseFunction", "=", [tag |-> "tuple", val |-> <<PyStr(p[1]), p[2]>>])

asStr(r) == IF r.err # "" THEN r ELSE Ok(PyStr(r.val))

(* the value of `args` when line 76 is reached, or the exception raised on the way *)
functionArgs(unit, function) ==
  LET v == GetItem(unit, function) IN
  CASE v.tag = "dict" ->
         IF \E i \in 1..Len(v.val) : pairArg(v.val[i]).err # ""
         THEN Raise("parseFunction", "TypeError")
         ELSE Ok(PyList([i \in 1..Len(v.val) |-> PyStr(pairArg(v.val[i]).val)]))
    [] v.tag \in {"list", "tuple"} ->
         asStr(join("parseFunction", ":", v))
    [] IsScalar(v) -> Ok(v)
    [] OTHER -> Raise("parseFunction", "ValueError")

(* line 76 *)
prefixed(function, tail) ==
  IF tail.err # "" THEN tail ELSE Ok(function \o "=" \o tail.val)

joinArgs(function, args) ==
  IF args.err # "" THEN args ELSE prefixed(function, join("parseFunction", ":", args.val))

(* mutant of parseFunction: the assertions of lines 63-64 compiled away *)
parseFunction_NoAsserts(unit) ==
  IF unit.tag # "dict" \/ Len(unit.val) = 0 THEN Raise("parseFunction", "IndexError")
  ELSE joinArgs(unit.val[1][1], functionArgs(unit, unit.val[1][1]))

parseFunction(unit) ==
  IF unit.tag # "dict" THEN Raise("parseFunction", "AssertionError")
  ELSE IF Len(unit.val) # 1 THEN Raise("parseFunction", "AssertionError")
  ELSE joinArgs(unit.val[1][1], functionArgs(unit, unit.val[1][1]))

----------------------------------------------------------------------------
(* FFMPEG.parseFilterComplex *)

(* line 101: fc['istream'] + self.parseFunction(fc['func']) + fc['ostream'],  *)
(* evaluated left to right                                                    *)
wrapStreams(fc, f) ==
  IF f.err # "" THEN f
  ELSE IF GetItem(fc, "istream").tag # "str" THEN Raise("parseFilterComplex", "TypeError")
  ELSE IF ~HasKey(fc, "ostream") THEN Raise("parseFilterComplex", "KeyError")
  ELSE IF GetItem(fc, "ostream").tag # "str" THEN Raise("parseFilterComplex", "TypeError")
  ELSE Ok(GetItem(fc, "istream").val \o f.val \o GetItem(fc, "ostream").val)

structuredFragment(fc) ==
  IF fc.tag # "dict" THEN Raise("parseFilterComplex", "TypeError")
  ELSE IF ~HasKey(fc, "istream") THEN Raise("parseFilterComplex", "KeyError")
  ELSE IF ~HasKey(fc, "func") THEN Raise("parseFilterComplex", "KeyError")
  ELSE wrapStreams(fc, parseFunction(GetItem(fc, "func")))

(* one iteration of the loop of lines 94-101: the fragment appended for fc *)
fragment(fc) == IF fc.tag = "str" THEN Ok(fc.val) ELSE structuredFragment(fc)

(* mutant of joinFragments: every fragment ended by the separator *)
joinFragments_Trailing(result) ==
  joinStrings("", [i \in 1..Len(result) |-> result[i] \o ";"])

(* line 102 *)
joinFragments(result) == joinStrings(";", result)

(* filter_complexes is the sequence of entries (the val of a list) *)
(* result being what each entry appends or raises, in order: the first raise  *)
(* ends the loop                                                              *)
joinOrRaise(result) ==
  IF \E i \in 1..Len(result) : result[i].err # ""
  THEN result[CHOOSE i \in 1..Len(result) :
                /\ result[i].err # ""
                /\ \A j \in 1..(i - 1) : result[j].err = ""]
  ELSE Ok(joinFragments([i \in 1..Len(result) |-> result[i].val]))

parseFilterComplex(filter_complexes) ==
  joinOrRaise([i \in 1..Len(filter_complexes) |-> fragment(filter_complexes[i])])

----------------------------------------------------------------------------
(* FFMPEG._genVideoCmd *)

(* '%s' % v, for the scalar values a JSON document holds *)
pystr(v) ==
  CASE v.tag = "str" -> v.val
    [] v.tag = "int" -> ToString(v.val)
    [] v.tag = "float" -> v.val
    [] v.tag = "bool" -> IF v.val THEN "True" ELSE "False"
    [] OTHER -> "None"

(* x in c: element of a list, key of a dict *)
In(x, c) ==
  IF c.tag = "dict" THEN HasKey(c, x)
  ELSE \E i \in 1..Len(c.val) : c.val[i] = PyStr(x)

(* lines 113-114: the '-opt val' flags of a structured input, 'i' removed *)
inputFlags(video) ==
  [k \in 1..Len(video.val) |-> PyStr("-" \o video.val[k][1] \o " " \o pystr(video.val[k][2]))]

(* line 112: what the structured input mapping is after `del video['i']` *)
afterDel(video) == DelItem(video, "i")

(* lines 109-118, from entry i on: [err, by, tokens, input], input being the  *)
(* list as the loop leaves it                                                 *)
RECURSIVE inputLoop(_, _, _)
inputLoop(input, i, tokens) ==
  IF i > Len(input) THEN [err |-> "", by |-> "", tokens |-> tokens, input |-> input]
  ELSE LET video == input[i] IN
    IF video.tag = "dict"
    THEN IF ~HasKey(video, "i")
         THEN [err |-> "KeyError", by |-> "_genVideoCmd", tokens |-> tokens, input |-> input]
         ELSE LET inputVideo == GetItem(video, "i")
                  stripped == afterDel(video)
              IN inputLoop([input EXCEPT ![i] = stripped], i + 1,
                           tokens \o inputFlags(stripped)
                                  \o <<PyStr("-i " \o pystr(inputVideo))>>)
    ELSE inputLoop(input, i + 1, tokens \o <<PyStr("-i"), video>>)

(* lines 108-122 *)
inputPart(value) ==
  IF value.tag \in {"list", "tuple", "set"}
  THEN LET r == inputLoop(value.val, 1, <<>>)
       IN [err |-> r.err, by |-> r.by, tokens |-> r.tokens,
           input |-> [tag |-> value.tag, val |-> r.input]]
  ELSE [err |-> "", by |-> "", tokens |-> <<PyStr("-i"), value>>, input |-> value]

(* lines 130-135: the -map tokens that follow a filter chain *)
mapTokens(config) ==
  (IF ~In("no-audio", Get(config, "attributes", PyList(<<>>)))
   THEN <<PyStr("-map"), PyStr("[audio]")>> ELSE <<>>)
  \o (IF ~In("no-video", Get(config, "attributes", PyList(<<>>)))
      THEN <<PyStr("-map"), PyStr("[video]")>> ELSE <<>>)

(* line 128, r being what parseFilterComplex returned or raised *)
quotedChain(config, r) ==
  IF r.err # "" THEN [err |-> r.err, by |-> r.by, tokens |-> <<>>]
  ELSE [err |-> "", by |-> "",
        tokens |-> <<PyStr("-filter_complex"), PyStr("\"" \o r.val \o "\"")>>
                   \o mapTokens(config)]

(* lines 124-135, fc being config['filter_complex'] *)
chainTokens(config, fc) ==
  IF fc.tag = "str"
  THEN [err |-> "", by |-> "", tokens |-> <<PyStr("-filter_complex"), fc>> \o mapTokens(config)]
  ELSE IF fc.tag = "list" THEN quotedChain(config, parseFilterComplex(fc.val))
  ELSE [err |-> "", by |-> "", tokens |-> <<PyStr("-filter_complex")>> \o mapTokens(config)]

(* lines 123-138: [err, by, tokens] *)
filterPart(config) ==
  IF HasKey(config, "filter_complex")
  THEN chainTokens(config, GetItem(config, "filter_complex"))
  ELSE [err |-> "", by |-> "",
        tokens |-> <<PyStr("-vf"), PyStr("scale=720x1280,setsar=1:1")>>]

(* mutant of codecTokens: the audio codec gated by the filter chain's absence *)
codecTokens_AudioByChain(config) ==
  (IF HasKey(config, "filter_complex") \/ ~In("no-audio", Get(config, "attributes", PyList(<<>>)))
   THEN <<PyStr("-c:a"), Get(Get(config, "codec", PyDict(<<>>)), "audio", PyStr("aac"))>>
   ELSE <<>>)
  \o (IF ~In("no-video", Get(config, "attributes", PyList(<<>>)))
      THEN <<PyStr("-c:v"), Get(Get(config, "codec", PyDict(<<>>)), "video", PyStr("h264"))>>
      ELSE <<>>)

(* lines 140-145 *)
codecTokens(config) ==
  (IF ~In("no-audio", Get(config, "attributes", PyList(<<>>)))
   THEN <<PyStr("-c:a"), Get(Get(config, "codec", PyDict(<<>>)), "audio", PyStr("aac"))>>
   ELSE <<>>)
  \o (IF ~In("no-video", Get(config, "attributes", PyList(<<>>)))
      THEN <<PyStr("-c:v"), Get(Get(config, "codec", PyDict(<<>>)), "video", PyStr("h264"))>>
      ELSE <<>>)

(* lines 150-151 *)
vsyncTokens(config) ==
  IF In("vsync", GetItem(config, "attributes")) THEN <<PyStr("-vsync 2")>> ELSE <<>>

(* lines 153-155: [err, by, tokens] *)
movflagsPart(config) ==
  IF HasKey(config, "movflags")
  THEN LET m == join("_genVideoCmd", " ", GetItem(config, "movflags")) IN
    IF m.err # "" THEN [err |-> m.err, by |-> m.by, tokens |-> <<>>]
    ELSE [err |-> "", by |-> "", tokens |-> <<PyStr("-movflags " \o m.val)>>]
  ELSE [err |-> "", by |-> "", tokens |-> <<>>]

(* lines 106-107: the defaults written onto the clip specification *)
withDefaults(config) ==
  LET c1 == SetItem(config, "attributes", Get(config, "attributes", PyList(<<>>)))
  IN SetItem(c1, "require", Get(c1, "require", PyStr("")))

(* The call self._genVideoCmd(config) returns [err, by, val, config], config  *)
(* being the clip specification as the call leaves it: the mutations made     *)
(* before a raise stay.                                                       *)
raised(r, config) == [err |-> r.err, by |-> r.by, val |-> "", config |-> config]

(* lines 160-161, cmd being what ' '.join(result) returned or raised *)
storeCmd(config, cmd) ==
  IF cmd.err # "" THEN raised(cmd, config)
  ELSE [err |-> "", by |-> "", val |-> cmd.val,
        config |-> SetItem(config, "ffmpeg", PyStr(cmd.val))]

(* lines 140-158, inp and flt being what lines 108-122 and 123-138 appended *)
codecsToOutput(config, inp, flt, mov) ==
  IF mov.err # "" THEN raised(mov, config)
  ELSE IF ~HasKey(config, "output") THEN raised(Raise("_genVideoCmd", "KeyError"), config)
  ELSE storeCmd(config,
         join("_genVideoCmd", " ",
              PyList(<<PyStr("ffmpeg"), PyStr("-hide_banner")>>
                     \o inp.tokens \o flt.tokens \o codecTokens(config)
                     \o <<PyStr("-map_metadata"), PyStr("-1")>>
                     \o vsyncTokens(config) \o mov.tokens
                     \o <<PyStr("-y"), GetItem(config, "output")>>)))

(* lines 123-158 *)
filterToOutput(config, inp, flt) ==
  IF flt.err # "" THEN raised(flt, config)
  ELSE codecsToOutput(config, inp, flt, movflagsPart(config))

(* lines 108-158: config holds the input list as the loop left it *)
inputToOutput(config, inp) ==
  IF inp.err # "" THEN raised(inp, config)
  ELSE filterToOutput(config, inp, filterPart(config))

(* lines 108-161, config having its defaults *)
afterDefaults(config) ==
  IF ~HasKey(config, "input") THEN raised(Raise("_genVideoCmd", "KeyError"), config)
  ELSE inputToOutput(SetItem(config, "input", inputPart(GetItem(config, "input")).input),
                     inputPart(GetItem(config, "input")))

_genVideoCmd(config) == afterDefaults(withDefaults(config))

----------------------------------------------------------------------------
(* FFMPEG._buildVideoCmds, FFMPEG.__init__ *)

(* self.config['videos'] *)
videosOf(doc) == GetItem(doc, "videos").val

(* lines 164-165, from clip i on: [err, by, videos]; r is what the call of    *)
(* line 165 on clip i returned or raised                                      *)
RECURSIVE buildLoop(_, _)
buildStep(videos, i, r) ==
  IF r.err # "" THEN [err |-> r.err, by |-> r.by, videos |-> [videos EXCEPT ![i] = r.config]]
  ELSE buildLoop([videos EXCEPT ![i] = r.config], i + 1)

buildLoop(videos, i) ==
  IF i > Len(videos) THEN [err |-> "", by |-> "", videos |-> videos]
  ELSE buildStep(videos, i, _genVideoCmd(videos[i]))

builtDoc(doc, r) == [err |-> r.err, by |-> r.by, doc |-> SetItem(doc, "videos", PyList(r.videos))]

(* FFMPEG(cfg): [err, by, doc], doc being the document as construction leaves it *)
_buildVideoCmds(doc) == builtDoc(doc, buildLoop(videosOf(doc), 1))

----------------------------------------------------------------------------
(* FFMPEG._genFinalCmd *)

(* lines 15-27, date being the 'text' computed when the class is defined *)
POST_DATE(date) ==
  PyDict(<< <<"drawtext", PyDict(<<
    <<"fontfile", PyStr("/home/YouTube/resources/DejaVuSans.ttf")>>,
    <<"text", PyStr(date)>>,
    <<"fontcolor", PyStr("black")>>,
    <<"fontsize", PyStr("28")>>,
    <<"box", PyStr("1")>>,
    <<"boxcolor", PyStr("white@0.8")>>,
    <<"boxborderw", PyStr("10")>>,
    <<"x", PyStr("w-200")>>,
    <<"y", PyStr("15")>> >>)>> >>)

(* mutant of notABuild: no clip is skipped *)
notABuild_Never(video) == FALSE

(* line 180 *)
notABuild(video) == In("not-a-build", GetItem(video, "attributes"))

(* lines 182-186: one included clip, i being the count of clips included so far *)
accumulate(final, video, i) ==
  LET vidName == pystr(GetItem(video, "output")) IN
  [deps |-> final.deps \o " " \o vidName,
   input |-> final.input \o " -i " \o vidName,
   vstreams |-> final.vstreams \o "[" \o ToString(i) \o ":v]",
   astreams |-> final.astreams \o "[" \o ToString(i) \o ":a]",
   streamCount |-> final.streamCount]

(* lines 178-188, from clip pos on *)
RECURSIVE finalLoop(_, _, _, _)
finalLoop(videos, pos, i, final) ==
  IF pos > Len(videos) THEN [final EXCEPT !.streamCount = i]
  ELSE IF notABuild(videos[pos]) THEN finalLoop(videos, pos + 1, i, final)
  ELSE finalLoop(videos, pos + 1, i + 1, accumulate(final, videos[pos], i))

(* the dict `final` of lines 172-188 *)
finalOf(videos) ==
  finalLoop(videos, 1, 0,
            [deps |-> "", input |-> "", vstreams |-> "", astreams |-> "", streamCount |-> 0])

(* lines 190-196 *)
_genFinalCmd(videos, date) ==
  LET final == finalOf(videos)
      dateFn == parseFunction(POST_DATE(date)).val
  IN "build/final.mp4:" \o final.deps \o "\n"
     \o "\tffmpeg -hide_banner" \o final.input
     \o " -filter_complex \"" \o final.vstreams \o "concat=n=" \o ToString(final.streamCount)
     \o "," \o dateFn \o "[video];" \o final.astreams
     \o "concat=v=0:a=1:n=" \o ToString(final.streamCount) \o "[audio]\""
     \o " -map [video] -map [audio] -map_metadata -1 -c:v h264 -c:a aac -vsync 2 -y build/final.mp4"
     \o "\n\n"

----------------------------------------------------------------------------
(* FFMPEG.Makefile *)

(* lines 207-213 *)
makefileHeader == "\nall: build/final.mp4\n\nclean:\n\trm -fv build/*.mp4\n\n"

(* line 216 *)
withRequire(video) == SetItem(video, "require", Get(video, "require", PyStr("")))

(* line 217: the rule of one clip *)
clipRule(video) ==
  pystr(GetItem(video, "output")) \o ": " \o pystr(GetItem(video, "require"))
  \o "\n\t" \o pystr(GetItem(video, "ffmpeg")) \o "\n\n"

(* mutant of clipRules: no rule for a clip flagged 'not-a-build' *)
RECURSIVE clipRules_SkipExcluded(_, _)
clipRules_SkipExcluded(videos, i) ==
  IF i > Len(videos) THEN ""
  ELSE (IF In("not-a-build", Get(videos[i], "attributes", PyList(<<>>)))
        THEN "" ELSE clipRule(withRequire(videos[i])))
       \o clipRules_SkipExcluded(videos, i + 1)

(* lines 215-217, from clip i on *)
RECURSIVE clipRules(_, _)
clipRules(videos, i) ==
  IF i > Len(videos) THEN ""
  ELSE clipRule(withRequire(videos[i])) \o clipRules(videos, i + 1)

(* ff.Makefile() on a constructed builder: the text returned *)
Makefile(doc, date) ==
  makefileHeader \o clipRules(videosOf(doc), 1) \o _genFinalCmd(videosOf(doc), date)

(* the document as Makefile() leaves it (line 216 writes 'require' back) *)
afterMakefile(doc) ==
  SetItem(doc, "videos",
          PyList([i \in 1..Len(videosOf(doc)) |-> withRequire(videosOf(doc)[i])]))

----------------------------------------------------------------------------
(* Bounds and input domains *)

MaxArgs == 2      \* arguments of one filter function (mapping pairs or list fragments)
MaxEntries == 3   \* entries of one filter-complex sequence
MaxInputs == 2    \* entries of one clip's input list
MaxClips == 2     \* clips of one configuration document
MaxRenders == 2   \* successive renderings of one in-memory document

SeqsUpTo(S, n) == UNION {[1..k -> S] : k \in 0..n}

(* no key twice: what a Python dict can hold *)
DistinctKeys(ps) == \A i, j \in 1..Len(ps) : ps[i][1] = ps[j][1] => i = j

FuncNames == {"trim", "fade"}
ArgPairs == {<<"start", PyStr("1.15")>>, <<"end", PyStr("4.5")>>, <<"d", PyStr("")>>}
ArgFragments == {PyStr("start=1.15"), PyStr("end=4.5"), PyStr("in"), PyStr("")}
ArgScalars == {PyStr(""), PyStr("1"), PyStr("in"), PyStr("0.25"),
               PyInt(3), PyFloat("1.5"), PyBool(TRUE)}

ArgMappings == {PyDict(ps) : ps \in {q \in SeqsUpTo(ArgPairs, MaxArgs) : DistinctKeys(q)}}
ArgLists == {PyList(xs) : xs \in SeqsUpTo(ArgFragments, MaxArgs)}

(* what a parsed JSON document can hand to parseFunction *)
Units ==
  {PyDict(<< <<f, v>> >>) : f \in FuncNames, v \in ArgMappings \cup ArgLists \cup ArgScalars \cup {PyNone}}
  \cup {PyDict(<<>>),
        PyDict(<< <<"trim", PyStr("1")>>, <<"fade", PyStr("in")>> >>),
        PyStr("trim=1"),
        PyDict(<< <<"trim", PyDict(<< <<"start", PyInt(1)>> >>)>> >>),
        PyDict(<< <<"trim", PyList(<<PyStr("in"), PyInt(1)>>)>> >>)}

Entry(istream, func, ostream) ==
  PyDict(<< <<"istream", PyStr(istream)>>, <<"func", func>>, <<"ostream", PyStr(ostream)>> >>)

TrimMapping == PyDict(<< <<"trim", PyDict(<< <<"start", PyStr("1.15")>>, <<"end", PyStr("4.5")>> >>)>> >>)
FadeList == PyDict(<< <<"fade", PyList(<<PyStr("in"), PyStr("d=3")>>)>> >>)
TwoKeyUnit == PyDict(<< <<"trim", PyStr("1")>>, <<"fade", PyStr("in")>> >>)
NoKeyUnit == PyDict(<<>>)
NullUnit == PyDict(<< <<"trim", PyNone>> >>)

FcEntries ==
  {PyStr("[0:v]null[video]"), PyStr("anull"), PyStr(""),
   Entry("[0:v]", TrimMapping, "[video]"),
   Entry("[0:a]", FadeList, "[audio]"),
   Entry("[0:v]", TwoKeyUnit, "[video]")}

FcSeqs == SeqsUpTo(FcEntries, MaxEntries)

(* clip specifications for one call of _genVideoCmd *)
InputEntries ==
  {PyStr("a.mp4"),
   PyDict(<< <<"ss", PyStr("1")>>, <<"i", PyStr("b.mp4")>>, <<"t", PyInt(5)>> >>),
   PyDict(<< <<"ss", PyStr("1")>> >>)}
InputChoices == {PyStr("a.mp4")} \cup {PyList(xs) : xs \in SeqsUpTo(InputEntries, MaxInputs)}
FilterChoices ==
  {<<>>,
   << <<"filter_complex", PyStr("'[0:v]null[video];[0:a]anull[audio]'")>> >>,
   << <<"filter_complex", PyList(<<PyStr("[0:a]anull[audio]"), Entry("[0:v]", TrimMapping, "[video]")>>)>> >>,
   << <<"filter_complex", PyList(<<>>)>> >>,
   << <<"filter_complex", PyList(<<Entry("[0:v]", NullUnit, "[video]")>>)>> >>}
AttributeChoices ==
  {<<>>,
   << <<"attributes", PyList(<<>>)>> >>,
   << <<"attributes", PyList(<<PyStr("no-audio")>>)>> >>,
   << <<"attributes", PyList(<<PyStr("no-video")>>)>> >>,
   << <<"attributes", PyList(<<PyStr("no-video"), PyStr("no-audio")>>)>> >>,
   << <<"attributes", PyList(<<PyStr("vsync"), PyStr("no-audio"), PyStr("not-a-build")>>)>> >>}
OtherChoices ==
  {<<>>,
   << <<"codec", PyDict(<< <<"audio", PyStr("mp3")>> >>)>>, <<"require", PyStr("intro.png")>> >>,
   << <<"codec", PyDict(<< <<"video", PyStr("vp9")>>, <<"audio", PyStr("opus")>> >>)>>,
      <<"movflags", PyList(<<PyStr("+faststart"), PyStr("+frag_keyframe")>>)>> >>,
   << <<"movflags", PyList(<<>>)>>, <<"require", PyStr("")>> >>}

Clips ==
  {PyDict(<< <<"input", inp>>, <<"output", PyStr("build/00_intro.mp4")>> >> \o fc \o at \o ot) :
     inp \in InputChoices, fc \in FilterChoices, at \in AttributeChoices, ot \in OtherChoices}

(* configuration documents for main and for rendering: clips without their    *)
(* output, which is given by position                                         *)
ClipTemplates ==
  {PyDict(<< <<"input", PyStr("a.mp4")>> >>),
   PyDict(<< <<"input", PyStr("a.mp4")>>, <<"attributes", PyList(<<PyStr("not-a-build")>>)>> >>),
   PyDict(<< <<"input", PyList(<<PyDict(<< <<"i", PyStr("a.mp4")>>, <<"ss", PyStr("1")>> >>)>>)>>,
             <<"require", PyStr("intro.png")>> >>),
   PyDict(<< <<"input", PyList(<<PyStr("a.mp4"), PyStr("b.mp4")>>)>>,
             <<"filter_complex", PyList(<<PyStr("[0:a]anull[audio]"), Entry("[0:v]", TrimMapping, "[video]")>>)>>,
             <<"attributes", PyList(<<PyStr("no-audio"), PyStr("not-a-build")>>)>> >>),
   PyDict(<< <<"input", PyStr("a.mp4")>>,
             <<"filter_complex", PyStr("'[0:v]null[video];[0:a]anull[audio]'")>>,
             <<"attributes", PyList(<<PyStr("vsync")>>)>>,
             <<"codec", PyDict(<< <<"audio", PyStr("mp3")>> >>)>>,
             <<"movflags", PyList(<<PyStr("+faststart")>>)>> >>),
   PyDict(<< <<"input", PyStr("a.mp4")>>,
             <<"filter_complex", PyList(<<Entry("[0:v]", TwoKeyUnit, "[video]")>>)>> >>),
   PyDict(<< <<"input", PyStr("a.mp4")>>,
             <<"filter_complex", PyList(<<PyStr("[0:a]anull[audio]"), Entry("[0:v]", NoKeyUnit, "[video]")>>)>> >>),
   PyDict(<< <<"input", PyStr("a.mp4")>>,
             <<"filter_complex", PyList(<<Entry("[0:v]", NullUnit, "[video]")>>)>>,
             <<"attributes", PyList(<<PyStr("not-a-build")>>)>> >>)}

OutputAt(i) == PyStr("build/0" \o ToString(i) \o ".mp4")

Docs ==
  {PyDict(<< <<"videos", PyList([i \in 1..Len(ts) |-> SetItem(ts[i], "output", OutputAt(i))])>> >>) :
     ts \in SeqsUpTo(ClipTemplates, MaxClips)}

PostDates == {"2021-10-12", "2026-10-28"}

----------------------------------------------------------------------------
(* Specifications *)

Idle ==
  /\ op = "" /\ arg = PyNone /\ out = Ok(PyNone)
  /\ err = "" /\ makefile = "absent" /\ stdout = <<>> /\ mkdirs = 0 /\ renders = <<>>

(* One call of a formatter or of the per-clip builder on an input of the domain *)
InitCall ==
  /\ Idle
  /\ postDate \in PostDates
  /\ loaded = PyDict(<< <<"videos", PyList(<<>>)>> >>) /\ cfg = loaded
  /\ pc = "call" /\ buildDir = FALSE

CallParseFunction ==
  /\ pc = "call" /\ op = ""
  /\ \E unit \in Units :
       /\ op' = "parseFunction" /\ arg' = unit /\ out' = parseFunction(unit)
  /\ UNCHANGED <<loaded, cfg, postDate, pc, err, makefile, stdout, buildDir, mkdirs, renders>>

CallParseFilterComplex ==
  /\ pc = "call" /\ op = ""
  /\ \E fcs \in FcSeqs :
       /\ op' = "parseFilterComplex" /\ arg' = fcs /\ out' = parseFilterComplex(fcs)
  /\ UNCHANGED <<loaded, cfg, postDate, pc, err, makefile, stdout, buildDir, mkdirs, renders>>

CallGenVideoCmd ==
  /\ pc = "call" /\ op = ""
  /\ \E clip \in Clips :
       /\ op' = "_genVideoCmd" /\ arg' = clip /\ out' = _genVideoCmd(clip)
  /\ UNCHANGED <<loaded, cfg, postDate, pc, err, makefile, stdout, buildDir, mkdirs, renders>>

NextCall == CallParseFunction \/ CallParseFilterComplex \/ CallGenVideoCmd

SpecCall == InitCall /\ [][NextCall]_vars

(* main(), from the return of json.load on *)
Init ==
  /\ Idle
  /\ postDate \in PostDates
  /\ loaded \in Docs /\ cfg = loaded
  /\ pc = "construct" /\ buildDir \in BOOLEAN

(* line 234: ff = FFMPEG(config) *)
Construct ==
  /\ pc = "construct"
  /\ out' = _buildVideoCmds(cfg)
  /\ cfg' = out'.doc
  /\ err' = out'.err
  /\ pc' = IF out'.err = "" THEN "open" ELSE "aborted"
  /\ op' = "FFMPEG"
  /\ UNCHANGED <<arg, loaded, postDate, makefile, stdout, buildDir, mkdirs, renders>>

(* line 235: io.open('Makefile', 'w') creates or truncates the file *)
OpenMakefile ==
  /\ pc = "open"
  /\ makefile' = [text |-> ""]
  /\ pc' = "render" /\ op' = "open"
  /\ UNCHANGED <<arg, out, loaded, cfg, postDate, err, stdout, buildDir, mkdirs, renders>>

(* line 235: the argument ff.Makefile() *)
RenderMakefile ==
  /\ pc = "render"
  /\ out' = Ok(Makefile(cfg, postDate))
  /\ cfg' = afterMakefile(cfg)
  /\ pc' = "write" /\ op' = "Makefile"
  /\ UNCHANGED <<arg, loaded, postDate, err, makefile, stdout, buildDir, mkdirs, renders>>

(* line 235: .write(...) *)
WriteMakefile ==
  /\ pc = "write"
  /\ makefile' = [text |-> out.val]
  /\ pc' = "print" /\ op' = "write"
  /\ UNCHANGED <<arg, out, loaded, cfg, postDate, err, stdout, buildDir, mkdirs, renders>>

(* line 236 *)
PrintWritten ==
  /\ pc = "print"
  /\ stdout' = Append(stdout, "Makefile written ^_^")
  /\ pc' = "mkdir" /\ op' = "print"
  /\ UNCHANGED <<arg, out, loaded, cfg, postDate, err, makefile, buildDir, mkdirs>>
  /\ UNCHANGED renders

(* lines 237-239 *)
MakeBuildDir ==
  /\ pc = "mkdir"
  /\ buildDir' = TRUE
  /\ mkdirs' = IF buildDir THEN mkdirs ELSE mkdirs + 1
  /\ pc' = "exit" /\ op' = "mkdir"
  /\ UNCHANGED <<arg, out, loaded, cfg, postDate, err, makefile, stdout, renders>>

Next ==
  Construct \/ OpenMakefile \/ RenderMakefile \/ WriteMakefile \/ PrintWritten \/ MakeBuildDir

Spec == Init /\ [][Next]_vars

(* Rendering one in-memory document again and again: FFMPEG(cfg).Makefile() *)
InitRender ==
  /\ Idle
  /\ postDate \in PostDates
  /\ loaded \in Docs /\ cfg = loaded
  /\ pc = "render" /\ buildDir = FALSE

(* r is what FFMPEG(cfg) returned or raised; Makefile() runs on a built one *)
rendered(r, date) ==
  IF r.err # "" THEN [err |-> r.err, by |-> r.by, val |-> "", doc |-> r.doc]
  ELSE [err |-> "", by |-> "", val |-> Makefile(r.doc, date), doc |-> afterMakefile(r.doc)]

Render ==
  /\ pc = "render"
  /\ Len(renders) < MaxRenders
  /\ out' = rendered(_buildVideoCmds(cfg), postDate)
  /\ cfg' = out'.doc
  /\ renders' = Append(renders, [err |-> out'.err, text |-> out'.val])
  /\ op' = "render"
  /\ UNCHANGED <<arg, loaded, postDate, pc, err, makefile, stdout, buildDir, mkdirs>>

NextRender == Render

SpecRender == InitRender /\ [][NextRender]_vars

----------------------------------------------------------------------------
(* Properties *)

Contains(s, sub) ==
  \E i \in 1..(Len(s) - Len(sub) + 1) : SubSeq(s, i, i + Len(sub) - 1) = sub

EndsWith(s, suffix) ==
  /\ Len(s) >= Len(suffix)
  /\ SubSeq(s, Len(s) - Len(suffix) + 1, Len(s)) = suffix

(* a parseFunction call on a unit {name: value} with value of the given type *)
CalledOnUnit(tags) ==
  /\ op = "parseFunction"
  /\ arg.tag = "dict" /\ Len(arg.val) = 1
  /\ arg.val[1][2].tag \in tags

UnitName == arg.val[1][1]
UnitValue == arg.val[1][2]

AllStrings(xs) == \A i \in 1..Len(xs) : xs[i].tag = "str"

(* the elements of a list of strings, each unchanged, with ':' between neighbours *)
RECURSIVE ColonJoined(_)
ColonJoined(xs) ==
  IF xs = <<>> THEN ""
  ELSE xs[1].val \o (IF Len(xs) = 1 THEN "" ELSE ":" \o ColonJoined(Tail(xs)))

(* C1: for a unit {name: L} with L a list of string fragments, parseFunction  *)
(* returns name, '=', and the elements of L unchanged, joined by ':' in order. *)
C1_ListJoinedUnchanged ==
  (CalledOnUnit({"list"}) /\ AllStrings(UnitValue.val))
    => out = Ok(UnitName \o "=" \o ColonJoined(UnitValue.val))

(* 'key=value' for each pair of a mapping, in order, with ':' between pairs *)
RECURSIVE PairsText(_)
PairsText(ps) ==
  IF ps = <<>> THEN ""
  ELSE ps[1][1] \o "=" \o ps[1][2].val
       \o (IF Len(ps) = 1 THEN "" ELSE ":" \o PairsText(Tail(ps)))

(* C2: for a unit {name: M} with M a mapping of strings to strings,           *)
(* parseFunction returns name, '=', and the 'key=value' pairs of M joined by  *)
(* ':' in the mapping's order; an empty mapping and an empty list give        *)
(* exactly 'name='.                                                           *)
C2_MappingPairs ==
  /\ (CalledOnUnit({"dict"}) /\ \A i \in 1..Len(UnitValue.val) : UnitValue.val[i][2].tag = "str")
       => out = Ok(UnitName \o "=" \o PairsText(UnitValue.val))
  /\ (CalledOnUnit({"dict", "list"}) /\ UnitValue.val = <<>>)
       => out = Ok(UnitName \o "=")

C2_Witness ==
  /\ CalledOnUnit({"dict"})
  /\ Len(UnitValue.val) = 2
  /\ out = Ok("trim=start=1.15:end=4.5")

(* C3: for a unit {name: s} with s a string, an integer or a float,           *)
(* parseFunction succeeds and returns name, '=', and s as it is.              *)
C3_ScalarAsIs ==
  CalledOnUnit({"str", "int", "float"})
    => out = Ok(UnitName \o "=" \o pystr(UnitValue))

----------------------------------------------------------------------------
(* C9: parseFilterComplex *)

(* the fragment the claim gives entry e: a raw string unchanged, a structured *)
(* entry as istream + parseFunction(func) + ostream                           *)
ClaimedFragment(e) ==
  IF e.tag = "str" THEN e.val
  ELSE GetItem(e, "istream").val \o parseFunction(GetItem(e, "func")).val
       \o GetItem(e, "ostream").val

EntryRenders(e) == e.tag = "str" \/ parseFunction(GetItem(e, "func")).err = ""

(* where fragment i starts in the result: after the fragments before it and   *)
(* one separator for each                                                     *)
RECURSIVE FragmentOffset(_, _)
FragmentOffset(es, i) ==
  IF i = 1 THEN 0
  ELSE FragmentOffset(es, i - 1) + Len(ClaimedFragment(es[i - 1])) + 1

(* C9: for a sequence of entries that all render, parseFilterComplex returns  *)
(* the fragments in the order of the entries, raw strings unchanged and       *)
(* structured entries as istream + parseFunction(func) + ostream, with        *)
(* exactly one ';' between neighbours and none leading or trailing; the       *)
(* empty sequence gives the empty string.                                     *)
C9_FragmentsInOrder ==
  (op = "parseFilterComplex" /\ \A i \in 1..Len(arg) : EntryRenders(arg[i])) =>
    /\ out.err = ""
    /\ Len(arg) = 0 => out.val = ""
    /\ Len(arg) > 0 =>
         Len(out.val) = FragmentOffset(arg, Len(arg)) + Len(ClaimedFragment(arg[Len(arg)]))
    /\ \A i \in 1..Len(arg) :
         /\ SubSeq(out.val, FragmentOffset(arg, i) + 1,
                   FragmentOffset(arg, i) + Len(ClaimedFragment(arg[i]))) = ClaimedFragment(arg[i])
         /\ i > 1 => SubSeq(out.val, FragmentOffset(arg, i), FragmentOffset(arg, i)) = ";"

C9_Witness ==
  /\ op = "parseFilterComplex"
  /\ Len(arg) = 3
  /\ arg[1].tag = "str" /\ arg[2].tag = "dict" /\ arg[3].tag = "str"
  /\ out = Ok("anull;[0:v]trim=start=1.15:end=4.5[video];[0:v]null[video]")

----------------------------------------------------------------------------
(* C7, C8: the per-clip command builder *)

Returned(name) == op = name /\ out.err = ""

KeysOf(d) == {d.val[i][1] : i \in 1..Len(d.val)}

(* the same keys with the same values, whatever their order *)
SameDict(a, b) ==
  /\ KeysOf(a) = KeysOf(b)
  /\ \A k \in KeysOf(a) : GetItem(a, k) = GetItem(b, k)

(* C7: the only effect of _genVideoCmd on the clip specification is the added *)
(* 'ffmpeg' field holding the returned command string; every other field,     *)
(* each entry of 'input' and the presence or absence of 'attributes' and      *)
(* 'require' included, is the same after the call as before it.               *)
C7_OnlyAddsFfmpeg ==
  Returned("_genVideoCmd") => SameDict(out.config, SetItem(arg, "ffmpeg", PyStr(out.val)))

Flagged(clip, flag) == HasKey(clip, "attributes") /\ In(flag, GetItem(clip, "attributes"))

CodecOf(clip, stream, default) ==
  IF HasKey(clip, "codec") /\ HasKey(GetItem(clip, "codec"), stream)
  THEN GetItem(GetItem(clip, "codec"), stream).val
  ELSE default

(* C8: the rendered command holds '-c:a <codec>' exactly when 'no-audio' is   *)
(* absent and '-map [audio]' exactly when a filter chain is present and       *)
(* 'no-audio' is absent; the same for '-c:v', '-map [video]' and 'no-video'.  *)
(* A clip without 'attributes' has none of the flags.                         *)
C8_StreamTokensGated ==
  Returned("_genVideoCmd") =>
    /\ Contains(out.val, " -c:a " \o CodecOf(arg, "audio", "aac") \o " ") <=> ~Flagged(arg, "no-audio")
    /\ Contains(out.val, "-c:a") <=> ~Flagged(arg, "no-audio")
    /\ Contains(out.val, " -map [audio] ")
         <=> (HasKey(arg, "filter_complex") /\ ~Flagged(arg, "no-audio"))
    /\ Contains(out.val, " -c:v " \o CodecOf(arg, "video", "h264") \o " ") <=> ~Flagged(arg, "no-video")
    /\ Contains(out.val, "-c:v") <=> ~Flagged(arg, "no-video")
    /\ Contains(out.val, " -map [video] ")
         <=> (HasKey(arg, "filter_complex") /\ ~Flagged(arg, "no-video"))

C8_Witness ==
  /\ Returned("_genVideoCmd")
  /\ Flagged(arg, "no-audio") /\ ~Flagged(arg, "no-video")
  /\ ~HasKey(arg, "filter_complex")
  /\ ~Contains(out.val, "-c:a") /\ ~Contains(out.val, "[audio]")
  /\ Contains(out.val, "-c:v h264")

----------------------------------------------------------------------------
(* C4, C5, C10: main and the build file; C6: rendering twice *)

(* a filter unit parseFunction cannot format: not a mapping of exactly one    *)
(* key, or its value neither mapping, list, tuple nor scalar                  *)
Malformed(unit) ==
  \/ unit.tag # "dict"
  \/ Len(unit.val) # 1
  \/ unit.val[1][2].tag \notin {"dict", "list", "tuple", "str", "int", "float", "bool"}

ChainHasMalformed(clip) ==
  /\ HasKey(clip, "filter_complex")
  /\ GetItem(clip, "filter_complex").tag = "list"
  /\ \E i \in 1..Len(GetItem(clip, "filter_complex").val) :
       LET e == GetItem(clip, "filter_complex").val[i]
       IN e.tag = "dict" /\ Malformed(GetItem(e, "func"))

DocHasMalformed(doc) == \E i \in 1..Len(videosOf(doc)) : ChainHasMalformed(videosOf(doc)[i])

(* C4: when some clip's filter chain holds a malformed filter unit, main      *)
(* never gets past the construction of the builder: the error is raised by    *)
(* parseFunction, the Makefile is neither opened nor written, nothing is      *)
(* printed and the build directory is not created.                            *)
C4_NoOutputOnMalformedUnit ==
  DocHasMalformed(loaded) =>
    /\ pc \in {"construct", "aborted"}
    /\ makefile = "absent" /\ stdout = <<>> /\ mkdirs = 0
    /\ pc = "aborted" =>
         /\ out.by = "parseFunction"
         /\ out.err \in {"AssertionError", "ValueError"}
         /\ err = out.err

C4_Witness ==
  /\ pc = "aborted"
  /\ Len(videosOf(loaded)) = 2
  /\ ~ChainHasMalformed(videosOf(loaded)[1])
  /\ ChainHasMalformed(videosOf(loaded)[2])
  /\ Len(GetItem(GetItem(videosOf(loaded)[2], "filter_complex").val[1], "func").val) = 2
  /\ HasKey(videosOf(cfg)[1], "ffmpeg")
  /\ out.err = "AssertionError" /\ makefile = "absent" /\ ~buildDir

(* Makefile() has returned: out holds its text from then on *)
MakefileReturned == pc \in {"write", "print", "mkdir", "exit"}

Included(clip) == ~Flagged(clip, "not-a-build")

RECURSIVE EachOutput(_, _)
EachOutput(prefix, clips) ==
  IF clips = <<>> THEN ""
  ELSE prefix \o GetItem(clips[1], "output").val \o EachOutput(prefix, Tail(clips))

(* the labels [0:s] .. [k-1:s] *)
RECURSIVE StreamLabels(_, _)
StreamLabels(k, s) ==
  IF k = 0 THEN "" ELSE StreamLabels(k - 1, s) \o "[" \o ToString(k - 1) \o ":" \o s \o "]"

(* C5: the aggregate command accounts for the clips without 'not-a-build'     *)
(* only: with k such clips, its dependency list and its '-i' list are their   *)
(* output paths in order, its stream labels are [0:v]..[k-1:v] and            *)
(* [0:a]..[k-1:a], and both concat counts are k.                              *)
C5_AggregateCountsIncluded ==
  MakefileReturned =>
    LET inc == SelectSeq(videosOf(loaded), Included)
        k == Len(inc)
    IN EndsWith(out.val,
         "build/final.mp4:" \o EachOutput(" ", inc) \o "\n"
         \o "\tffmpeg -hide_banner" \o EachOutput(" -i ", inc)
         \o " -filter_complex \"" \o StreamLabels(k, "v") \o "concat=n=" \o ToString(k) \o ","
         \o parseFunction(POST_DATE(postDate)).val \o "[video];"
         \o StreamLabels(k, "a") \o "concat=v=0:a=1:n=" \o ToString(k) \o "[audio]\""
         \o " -map [video] -map [audio] -map_metadata -1 -c:v h264 -c:a aac -vsync 2 -y build/final.mp4\n\n")

C5_Witness ==
  /\ pc = "exit"
  /\ Len(videosOf(loaded)) = 2
  /\ ~Included(videosOf(loaded)[1]) /\ Included(videosOf(loaded)[2])
  /\ Contains(out.val, "build/final.mp4: build/02.mp4\n")
  /\ Contains(out.val, "\"[0:v]concat=n=1,")

(* the rules of the clips from i on, as the claim gives them *)
RECURSIVE RulesFrom(_, _, _)
RulesFrom(before, after, i) ==
  IF i > Len(before) THEN ""
  ELSE GetItem(before[i], "output").val \o ": "
       \o (IF HasKey(before[i], "require") THEN GetItem(before[i], "require").val ELSE "")
       \o "\n\t" \o GetItem(after[i], "ffmpeg").val \o "\n\n"
       \o RulesFrom(before, after, i + 1)

(* C10: the text Makefile() returns is the fixed header (the 'all:' and       *)
(* 'clean:' targets), then one rule for every clip of the list in order,      *)
(* excluded clips too ('<output>: <require>', a tab-indented line with the    *)
(* clip's stored command, a blank line; no 'require' gives no prerequisite),  *)
(* then the aggregate 'build/final.mp4:' rule, last.                          *)
C10_MakefileLayout ==
  MakefileReturned =>
    \E agg \in {_genFinalCmd(videosOf(cfg), postDate)} :
      /\ SubSeq(agg, 1, 16) = "build/final.mp4:"
      /\ out.val = "\nall: build/final.mp4\n\nclean:\n\trm -fv build/*.mp4\n\n"
                   \o RulesFrom(videosOf(loaded), videosOf(cfg), 1)
                   \o agg

C10_Witness ==
  /\ pc = "exit"
  /\ Len(videosOf(loaded)) = 2
  /\ ~Included(videosOf(loaded)[1]) /\ ~HasKey(videosOf(loaded)[1], "require")
  /\ HasKey(videosOf(loaded)[2], "require")
  /\ Contains(out.val, "\n\nbuild/01.mp4: \n\tffmpeg -hide_banner -i a.mp4 ")
  /\ Contains(out.val, "\n\nbuild/02.mp4: intro.png\n\tffmpeg ")
  /\ makefile = [text |-> out.val]

(* a document the data model allows: no malformed filter unit *)
ValidDoc(doc) == ~DocHasMalformed(doc)

(* C6: rendering the same in-memory document twice in succession succeeds     *)
(* both times and gives the same build-file text.                             *)
C6_RenderTwiceSameText ==
  (ValidDoc(loaded) /\ Len(renders) >= 2) =>
    /\ renders[1].err = "" /\ renders[2].err = ""
    /\ renders[1].text = renders[2].text

====
